---- MODULE Spec2Model ----
(***************************************************************************)
(* Model of scripts/ai_pr_reviewer/index.py: the AI pull request reviewer. *)
(*                                                                         *)
(* Texts (the diff, the LLM's streamed output, the messages) are sequences *)
(* of string fragments; a text that the code scans character by character  *)
(* is a sequence of one-character fragments.                               *)
(*                                                                         *)
(* Specifications:                                                         *)
(*   Spec      runs of main() that never overlap                           *)
(*   SpecConc  two runs of main() interleaved step by step                 *)
(*   SpecLLM   analyze_with_llm() over streams of text fragments           *)
(*   SpecDiff  analyze_diff() over bounded diff texts                      *)
(***************************************************************************)
EXTENDS Integers, Sequences, FiniteSets, TLC

VARIABLES run, fs, dirExists, started, opens, llm, da

vars == <<run, fs, dirExists, started, opens, llm, da>>

mainVars == <<run, fs, dirExists, started, opens>>

\* ------------------------------------------------------------------ bounds

\* Runs of main() started in one behaviour.
MaxRuns == 3

\* Length of the diff texts analyze_diff is applied to in SpecDiff.
MaxDiffLen == 4

\* Events the stream may carry between the text deltas in SpecLLM.
MaxPings == 1

\* ------------------------------------------------------------------ texts

None == [type |-> "None"]

Min(a, b) == IF a < b THEN a ELSE b

Max(a, b) == IF a > b THEN a ELSE b

\* s[i:] and s[:j] of Python, 0-based, for i, j >= 0
SliceFrom(s, i) == SubSeq(s, Min(i, Len(s)) + 1, Len(s))

SliceTo(s, j) == SubSeq(s, 1, Min(j, Len(s)))

\* s[:-j] of Python, j > 0
SliceDropLast(s, j) == SubSeq(s, 1, Max(Len(s) - j, 0))

StartsWith(s, pre) == Len(s) >= Len(pre) /\ SubSeq(s, 1, Len(pre)) = pre

EndsWith(s, suf) ==
    Len(s) >= Len(suf) /\ SubSeq(s, Len(s) - Len(suf) + 1, Len(s)) = suf

\* s.startswith(pre, i) with a 1-based i
StartsWithAt(s, i, pre) ==
    i + Len(pre) - 1 <= Len(s) /\ SubSeq(s, i, i + Len(pre) - 1) = pre

Whitespace == {" ", "\n"}

RECURSIVE LStrip(_)
LStrip(s) ==
    IF s # <<>> /\ Head(s) \in Whitespace THEN LStrip(Tail(s)) ELSE s

RECURSIVE RStrip(_)
RStrip(s) ==
    IF s # <<>> /\ s[Len(s)] \in Whitespace
    THEN RStrip(SubSeq(s, 1, Len(s) - 1))
    ELSE s

\* str.strip()
Strip(s) == RStrip(LStrip(s))

\* ------------------------------------------------------------------ json.loads
\* Python's json decoder over the characters of the model's texts.  A scan
\* yields [ok |-> TRUE, end |-> index after the value, val |-> value] or
\* [ok |-> FALSE, msg |-> the JSONDecodeError's message].

Digits == {"0", "1"}

JFail(m) == [ok |-> FALSE, msg |-> m]

JOk(e, v) == [ok |-> TRUE, end |-> e, val |-> v]

RECURSIVE SkipWs(_, _)
SkipWs(s, i) ==
    IF i <= Len(s) /\ s[i] \in Whitespace THEN SkipWs(s, i + 1) ELSE i

CharAt(s, i) == IF i >= 1 /\ i <= Len(s) THEN s[i] ELSE ""

\* py_scanstring, strict: i is the index after the opening quote
RECURSIVE ScanString(_, _, _)
ScanString(s, i, acc) ==
    IF i > Len(s) THEN JFail("Unterminated string starting at")
    ELSE IF s[i] = "\"" THEN JOk(i + 1, [type |-> "str", s |-> acc])
    ELSE IF s[i] = "\n" THEN JFail("Invalid control character at")
    ELSE ScanString(s, i + 1, Append(acc, s[i]))

RECURSIVE ScanDigits(_, _)
ScanDigits(s, i) ==
    IF i <= Len(s) /\ s[i] \in Digits THEN ScanDigits(s, i + 1) ELSE i

\* NUMBER_RE: (-?(?:0|[1-9]\d*)) over the digits of the model
ScanNumber(s, i) ==
    LET e == IF s[i] = "0" THEN i + 1 ELSE ScanDigits(s, i)
    IN  JOk(e, [type |-> "int", digits |-> SubSeq(s, i, e - 1)])

RECURSIVE ScanOnce(_, _)
RECURSIVE ObjectMembers(_, _, _)
RECURSIVE ArrayElements(_, _, _)

\* JSONObject: i is the index after the opening brace
JSONObject(s, i) ==
    LET j == IF CharAt(s, i) \in Whitespace THEN SkipWs(s, i) ELSE i
    IN  IF CharAt(s, i) = "\"" THEN ObjectMembers(s, i + 1, <<>>)
        ELSE IF CharAt(s, j) = "}" THEN JOk(j + 1, [type |-> "dict", items |-> <<>>])
        ELSE IF CharAt(s, j) # "\""
             THEN JFail("Expecting property name enclosed in double quotes")
        ELSE ObjectMembers(s, j + 1, <<>>)

\* the while loop of JSONObject: i is the index after a key's opening quote
ObjectMembers(s, i, acc) ==
    LET key == ScanString(s, i, <<>>)
    IN  IF ~key.ok THEN key
        ELSE
        LET c == SkipWs(s, key.end)
        IN  IF CharAt(s, c) # ":" THEN JFail("Expecting ':' delimiter")
            ELSE
            LET v == ScanOnce(s, SkipWs(s, c + 1))
            IN  IF ~v.ok THEN v
                ELSE
                LET n    == SkipWs(s, v.end)
                    acc2 == Append(acc, [k |-> key.val.s, v |-> v.val])
                IN  IF CharAt(s, n) = "}"
                    THEN JOk(n + 1, [type |-> "dict", items |-> acc2])
                    ELSE IF CharAt(s, n) # "," THEN JFail("Expecting ',' delimiter")
                    ELSE
                    LET q == SkipWs(s, n + 1)
                    IN  IF CharAt(s, q) # "\""
                        THEN JFail("Expecting property name enclosed in double quotes")
                        ELSE ObjectMembers(s, q + 1, acc2)

\* JSONArray: i is the index after the opening bracket
JSONArray(s, i) ==
    LET j == SkipWs(s, i)
    IN  IF CharAt(s, j) = "]" THEN JOk(j + 1, [type |-> "list", elems |-> <<>>])
        ELSE ArrayElements(s, j, <<>>)

ArrayElements(s, i, acc) ==
    LET v == ScanOnce(s, i)
    IN  IF ~v.ok THEN v
        ELSE
        LET n    == SkipWs(s, v.end)
            acc2 == Append(acc, v.val)
        IN  IF CharAt(s, n) = "]"
            THEN JOk(n + 1, [type |-> "list", elems |-> acc2])
            ELSE IF CharAt(s, n) # "," THEN JFail("Expecting ',' delimiter")
            ELSE ArrayElements(s, SkipWs(s, n + 1), acc2)

\* scanner.py_make_scanner._scan_once
ScanOnce(s, i) ==
    LET c == CharAt(s, i)
    IN  IF c = "" THEN JFail("Expecting value")
        ELSE IF c = "\"" THEN ScanString(s, i + 1, <<>>)
        ELSE IF c = "{" THEN JSONObject(s, i + 1)
        ELSE IF c = "[" THEN JSONArray(s, i + 1)
        ELSE IF StartsWithAt(s, i, <<"n", "u", "l", "l">>)
             THEN JOk(i + 4, [type |-> "null"])
        ELSE IF c \in Digits THEN ScanNumber(s, i)
        ELSE JFail("Expecting value")

\* json.loads(s): JSONDecoder.decode
JsonLoads(s) ==
    LET v == ScanOnce(s, SkipWs(s, 1))
    IN  IF ~v.ok THEN v
        ELSE IF SkipWs(s, v.end) # Len(s) + 1 THEN JFail("Extra data")
        ELSE v

\* ------------------------------------------------------------------ Python values
\* A dict is the sequence of its items in insertion order; a later item with
\* the same key replaces the earlier one.

Str(s) == [type |-> "str", s |-> s]

Dict(items) == [type |-> "dict", items |-> items]

RECURSIVE DictGet(_, _, _)
\* d.get(key, default)
DictGet(d, key, default) ==
    IF d.items = <<>> THEN default
    ELSE LET last == d.items[Len(d.items)]
         IN  IF last.k = key THEN last.v
             ELSE DictGet(Dict(SubSeq(d.items, 1, Len(d.items) - 1)), key, default)

KeySummary == <<"s", "u", "m", "m", "a", "r", "y">>

KeyRisk == <<"r", "i", "s", "k", "_", "a", "s", "s", "e", "s", "s", "m", "e", "n", "t">>

KeyApi == <<"a", "p", "i", "_", "i", "m", "p", "a", "c", "t">>

KeyDependency == <<"d", "e", "p", "e", "n", "d", "e", "n", "c", "y", "_", "i", "m", "p", "a", "c", "t">>

KeyTests == <<"s", "u", "g", "g", "e", "s", "t", "e", "d", "_", "t", "e", "s", "t", "s">>

KeyQuality == <<"c", "o", "d", "e", "_", "q", "u", "a", "l", "i", "t", "y">>

\* ------------------------------------------------------------------ analyze_with_llm

\* the fragment standing for the one character U+0060 (grave accent)
BT == "BACKTICK"

FenceJson == <<BT, BT, BT, "j", "s", "o", "n">>

Fence == <<BT, BT, BT>>

\* for chunk in response: if chunk.type == "content_block_delta": content += chunk.delta.text
Collect(content, chunk) ==
    IF chunk.type = "content_block_delta" THEN content \o chunk.text ELSE content

\* Clean content - remove any markdown code blocks
CleanContent(content) ==
    LET c1 == IF StartsWith(content, FenceJson) THEN SliceFrom(content, 7) ELSE content
        c2 == IF EndsWith(c1, Fence) THEN SliceDropLast(c1, 3) ELSE c1
    IN  Strip(c2)

RawPointer == Str(<<"Raw response shown in summary above">>)

\* the record returned when json.loads raises JSONDecodeError e
ParseFallback(content, e) ==
    Dict(<< [k |-> KeySummary,    v |-> Str(content)],
            [k |-> KeyRisk,       v |-> Str(<<"Could not parse LLM response. Error: ", e>>)],
            [k |-> KeyApi,        v |-> RawPointer],
            [k |-> KeyDependency, v |-> RawPointer],
            [k |-> KeyQuality,    v |-> RawPointer] >>)

AnalysisFailed == Str(<<"Analysis failed">>)

\* the record returned by the outer except Exception as e
ErrorRecord(e) ==
    Dict(<< [k |-> KeySummary,    v |-> Str(<<"Error analyzing with Claude: ", e>>)],
            [k |-> KeyRisk,       v |-> AnalysisFailed],
            [k |-> KeyApi,        v |-> AnalysisFailed],
            [k |-> KeyDependency, v |-> AnalysisFailed],
            [k |-> KeyQuality,    v |-> AnalysisFailed] >>)

\* ParseContent without the inner except: the JSONDecodeError reaches the
\* outer except Exception
ParseContentNoFallback(content) ==
    LET r == JsonLoads(content)
    IN  IF r.ok THEN r.val ELSE ErrorRecord(r.msg)

\* try: return json.loads(content) except json.JSONDecodeError
ParseContent(content) ==
    LET r == JsonLoads(content)
    IN  IF r.ok THEN r.val ELSE ParseFallback(content, r.msg)

RECURSIVE CollectAll(_, _)
CollectAll(content, stream) ==
    IF stream = <<>> THEN content
    ELSE CollectAll(Collect(content, Head(stream)), Tail(stream))

\* analyze_with_llm as one call: o.raises is the exception the client raises
\* (at create or while the stream is read), "" when it raises none
AnalyzeWithLLM(o) ==
    IF o.raises # "" THEN ErrorRecord(o.raises)
    ELSE ParseContent(CleanContent(CollectAll(<<>>, o.stream)))

\* ---- the streams of the model

Delta(text) ==
    IF text = <<>> THEN <<>> ELSE << [type |-> "content_block_delta", text |-> text] >>

Event(t) == [type |-> t, text |-> <<>>]

RECURSIVE Pings(_)
Pings(n) == IF n = 0 THEN <<>> ELSE <<Event("ping")>> \o Pings(n - 1)

StreamOf(pre, body, post, pings) ==
    <<Event("message_start")>> \o Delta(pre) \o Pings(pings) \o Delta(body)
        \o Delta(post) \o <<Event("message_stop")>>

Prefixes ==
    { <<>>, FenceJson, FenceJson \o <<"\n">>, <<" ">> \o FenceJson, Fence }

Bodies ==
    { <<>>,
      <<"{", "}">>,
      <<"{", "\"", "s", "u", "m", "m", "a", "r", "y", "\"", ":", "\"", "x", "\"", "}">>,
      <<"{", "\"", "s", "u", "m", "m", "a", "r", "y", "\"", ":", " ", "\"", "x", "\"", ",", " ", "\"", "s", "u", "m", "m", "a", "r", "y", "\"", ":", " ", "\"", "y", "\"", "}">>,
      <<"[", "]">>,
      <<"[", "1", ",", " ", "\"", "x", "\"", "]">>,
      <<"1", "0">>,
      <<"\"", "x", "\"">>,
      <<"n", "u", "l", "l">>,
      <<"x">>,
      <<"{", "\"", "s", "u", "m", "m", "a", "r", "y", "\"", ":">>,
      <<"{", "\"", "s", "u", "m", "m", "a", "r", "y", "\"", ":", "\"", "x", "\"", ",", "}">>,
      <<"{", "}", " ", "x">> }

Suffixes ==
    { <<>>, Fence, <<"\n">> \o Fence, Fence \o <<"\n">> }

ClientErrors == {"APIConnectionError", "APIStatusError"}

LLMInit ==
    \E pre \in Prefixes, body \in Bodies, post \in Suffixes, n \in 0..MaxPings :
        llm = [pc |-> "start", stream |-> StreamOf(pre, body, post, n),
               content |-> <<>>, cleaned |-> <<>>, result |-> None, raised |-> ""]

\* client.messages.create(..., stream=True)
LLMCreate ==
    /\ llm.pc = "start"
    /\ \/ llm' = [llm EXCEPT !.pc = "stream"]
       \/ \E e \in ClientErrors :
            llm' = [llm EXCEPT !.pc = "returned", !.raised = e, !.result = ErrorRecord(e)]
    /\ UNCHANGED <<mainVars, da>>

\* one iteration of: for chunk in response
LLMChunk ==
    /\ llm.pc = "stream"
    /\ llm.stream # <<>>
    /\ \/ llm' = [llm EXCEPT !.stream = Tail(@),
                             !.content = Collect(@, Head(llm.stream))]
       \/ \E e \in ClientErrors :
            llm' = [llm EXCEPT !.pc = "returned", !.raised = e, !.result = ErrorRecord(e)]
    /\ UNCHANGED <<mainVars, da>>

\* the stream is exhausted: clean the content and parse it
LLMParse ==
    /\ llm.pc = "stream"
    /\ llm.stream = <<>>
    /\ llm' = [llm EXCEPT !.pc = "returned",
                          !.cleaned = CleanContent(llm.content),
                          !.result = ParseContent(CleanContent(llm.content))]
    /\ UNCHANGED <<mainVars, da>>

\* ------------------------------------------------------------------ analyze_diff
\* The diff is a sequence of fragments: the characters a name is made of
\* ("A" an upper-case letter, "a" a lower-case letter, "1" a digit, "_"),
\* the punctuation of the idioms, and the literal heads of the three
\* access idioms ("process.env.", "os.environ['", "os.getenv('"), each one
\* fragment.  additions and deletions count the lines that begin with "+"
\* and "-"; file_types and apis_used are not modelled.

\* the character classes [A-Z_] and [A-Z0-9_] under the flags of re.findall
NameStart(flags) ==
    IF flags = "IGNORECASE" THEN {"A", "a", "_"} ELSE {"A", "_"}

NameRest(flags) == NameStart(flags) \cup {"1"}

\* the characters at the head of a fragment that the classes match before a
\* character they do not: the lower-case letters an idiom's head begins with
Lead(f, flags) ==
    IF flags # "IGNORECASE" THEN ""
    ELSE IF f = "process.env." THEN "process"
    ELSE IF f \in {"os.environ['", "os.getenv('"} THEN "os"
    ELSE ""

\* the flags analyze_diff passes for the env_patterns
StrictFlags == "0"

EnvFlags == "IGNORECASE"

\* env_patterns: the literal text before and after the captured group
EnvPatterns ==
    << [pre |-> <<"process.env.">>,      suf |-> <<>>],
       [pre |-> <<"os.environ['">>,      suf |-> <<"'", "]">>],
       [pre |-> <<"os.getenv('">>,       suf |-> <<"'">>],
       [pre |-> <<"$", "{">>,            suf |-> <<"}">>],
       [pre |-> <<"$">>,                 suf |-> <<>>] >>

RECURSIVE NameEnd(_, _, _)
\* the index after the longest run of name characters that begins at i
NameEnd(s, i, flags) ==
    IF i <= Len(s) /\ s[i] \in NameRest(flags) THEN NameEnd(s, i + 1, flags) ELSE i

\* the match of pattern p that begins at i, if there is one: the group is
\* the longest run of name characters after p.pre, which may end with the
\* lead of the next fragment
MatchAt(s, i, p, flags) ==
    LET b    == i + Len(p.pre)
        e    == IF b <= Len(s) /\ s[b] \in NameStart(flags)
                THEN NameEnd(s, b, flags) ELSE b
        lead == IF e <= Len(s) THEN Lead(s[e], flags) ELSE ""
        name == SubSeq(s, b, e - 1) \o (IF lead = "" THEN <<>> ELSE <<lead>>)
    IN  IF /\ StartsWithAt(s, i, p.pre)
           /\ name # <<>>
           /\ IF lead = "" THEN StartsWithAt(s, e, p.suf) ELSE p.suf = <<>>
        THEN [ok |-> TRUE, name |-> name,
              end |-> IF lead = "" THEN e + Len(p.suf) ELSE e + 1]
        ELSE [ok |-> FALSE, name |-> <<>>, end |-> i + 1]

RECURSIVE FindAll(_, _, _, _)
\* re.findall(pattern, s, flags): the captured groups of the leftmost
\* non-overlapping matches, from index i on
FindAll(s, i, p, flags) ==
    IF i > Len(s) THEN {}
    ELSE LET m == MatchAt(s, i, p, flags)
         IN  IF m.ok THEN {m.name} \cup FindAll(s, m.end, p, flags)
             ELSE FindAll(s, i + 1, p, flags)

\* len(re.findall(r'^c', s, re.MULTILINE))
LineStarts(s, c) ==
    Cardinality({i \in 1..Len(s) : s[i] = c /\ (i = 1 \/ s[i - 1] = "\n")})

RECURSIVE ListOf(_)
\* list(a_set): the elements in some order
ListOf(S) ==
    IF S = {} THEN <<>>
    ELSE LET x == CHOOSE y \in S : TRUE IN <<x>> \o ListOf(S \ {x})

EnvVarsOf(diff_content) ==
    UNION {FindAll(diff_content, 1, EnvPatterns[k], EnvFlags) : k \in DOMAIN EnvPatterns}

analyze_diff(diff_content) ==
    IF diff_content = <<>>
    THEN [total_changes |-> 0, additions |-> 0, deletions |-> 0, env_vars |-> <<>>]
    ELSE LET additions == LineStarts(diff_content, "+")
             deletions == LineStarts(diff_content, "-")
         IN  [total_changes |-> additions + deletions,
              additions |-> additions,
              deletions |-> deletions,
              env_vars |-> ListOf(EnvVarsOf(diff_content))]

DiffAlphabet ==
    {"process.env.", "os.environ['", "os.getenv('", "'", "]",
     "$", "{", "}", "A", "a", "1", "_"}

DiffTexts == UNION {[1..n -> DiffAlphabet] : n \in 0..MaxDiffLen}

DiffInit ==
    \E d \in DiffTexts : da = [pc |-> "input", diff |-> d, result |-> None]

\* diff_analysis = analyze_diff(diff_content)
DiffAnalyze ==
    /\ da.pc = "input"
    /\ da' = [da EXCEPT !.pc = "done", !.result = analyze_diff(da.diff)]
    /\ UNCHANGED <<mainVars, llm>>

\* ------------------------------------------------------------------ generate_comment

Placeholder(text) == Str(<<text>>)

\* analysis.get(...) raises AttributeError unless analysis is a dict
CanRender(analysis) == analysis.type = "dict"

\* the comment: its header lines and its six sections
generate_comment(pr_info, analysis, now) ==
    [number            |-> pr_info.number,
     title             |-> pr_info.title,
     author            |-> pr_info.login,
     generated         |-> now,
     summary           |-> DictGet(analysis, KeySummary, Placeholder("No summary available")),
     risk_assessment   |-> DictGet(analysis, KeyRisk, Placeholder("No risk assessment available")),
     api_impact        |-> DictGet(analysis, KeyApi, Placeholder("No API changes detected")),
     dependency_impact |-> DictGet(analysis, KeyDependency, Placeholder("No dependency issues detected")),
     suggested_tests   |-> DictGet(analysis, KeyTests, Placeholder("No specific test suggestions")),
     code_quality      |-> DictGet(analysis, KeyQuality, Placeholder("No specific quality assessment"))]

\* ------------------------------------------------------------------ main: the environment

\* the processes that run main()
Procs == {1, 2}

\* --pr-number
PRNumbers == {42}

\* os.getenv(name): unset, set to the empty string, or set to a value
Unset == [set |-> FALSE, value |-> ""]

Tokens == {Unset, [set |-> TRUE, value |-> ""], [set |-> TRUE, value |-> "secret"]}

\* not token
Falsy(token) == ~token.set \/ token.value = ""

\* the head commits the hosting API may report: the first two agree on
\* their first 8 characters
Shas ==
    { <<"a", "b", "c", "d", "e", "f", "1", "2", "0", "0">>,
      <<"a", "b", "c", "d", "e", "f", "1", "2", "9", "9">>,
      <<"0", "0", "0", "0", "0", "0", "0", "0", "0", "0">> }

\* the instants datetime.utcnow() may return, to the minute
Times == {1, 2}

\* the responses of the hosting API: a success, an HTTP error status
\* (raise_for_status raises), an exception of requests.get
HttpFailures == {"HTTPError", "ConnectionError"}

\* the diffs of the hosting API
MainDiffs ==
    { <<>>,
      <<"+", "$", "A", "\n", "-", "process.env.", "a", "\n", "+", "$", "A">> }

\* what the LLM client does in a run of main()
MainOutcomes ==
    { [raises |-> "APIConnectionError", stream |-> <<>>],
      [raises |-> "", stream |-> StreamOf(FenceJson \o <<"\n">>,
                                         <<"{", "\"", "s", "u", "m", "m", "a", "r", "y", "\"", ":", "\"", "x", "\"", "}">>,
                                         <<"\n">> \o Fence, 0)],
      [raises |-> "", stream |-> StreamOf(<<>>, <<"[", "]">>, <<>>, 0)],
      [raises |-> "", stream |-> StreamOf(<<>>, <<"x">>, <<>>, 0)] }

\* ------------------------------------------------------------------ main: the file system

NoFile == [exists |-> FALSE, data |-> "none", text |-> None]

\* data: "empty" after open(path, 'w'), "partial" when a write broke off,
\* "full" when all of text was written
File(data, text) == [exists |-> TRUE, data |-> data, text |-> text]

\* pr_info['head']['sha'][:8]
ShortSha(sha) == SliceTo(sha, 8)

\* os.path.join(output_dir, f'review_comment_pr_{args.pr_number}_{pr_head_sha}.md')
OutputFile(pr_number, pr_head_sha) ==
    [dir |-> "output", pr |-> pr_number, sha |-> pr_head_sha]

Paths == {OutputFile(n, ShortSha(s)) : n \in PRNumbers, s \in Shas}

\* PathExists that takes only a completely written file for a review
PathExistsComplete(files, path) == files[path].exists /\ files[path].data = "full"

\* os.path.exists(output_file)
PathExists(files, path) == files[path].exists

\* ------------------------------------------------------------------ main: one run

NoCalls == [info |-> 0, files |-> 0, diff |-> 0, llm |-> 0]

\* what the hosting API answered to each fetch of the run: "" not asked yet
NoResponses == [info |-> "", files |-> "", diff |-> ""]

Idle ==
    [pc |-> "idle", exit |-> -1, out |-> "", trace |-> <<>>,
     pr_number |-> 0, github_token |-> Unset, anthropic_api_key |-> Unset,
     pr_info |-> None, output_file |-> None, changed_files |-> None,
     diff_content |-> <<>>, diff_analysis |-> None, analysis |-> None,
     comment |-> None,
     calls |-> NoCalls, resp |-> NoResponses, fsOps |-> 0, failed |-> "",
     checked |-> FALSE, existedAtCheck |-> FALSE, fileAtCheck |-> NoFile,
     fsAtStart |-> [p \in Paths |-> NoFile]]

Running(r) == r.pc \notin {"idle", "exited"}

\* the step named by its pc has been taken
Stepped(r) == [r EXCEPT !.trace = Append(@, r.pc)]

\* return code
Return(r, code, message) ==
    [r EXCEPT !.pc = "exited", !.exit = code, !.out = message]

\* except Exception as e: print(f"AI review failed: {e}"); return 1
Raise(r, step, e) ==
    [Return(r, 1, "AI review failed") EXCEPT !.failed = step]

MainInit ==
    /\ run = [p \in Procs |-> Idle]
    /\ fs = [p \in Paths |-> NoFile]
    /\ dirExists = FALSE
    /\ started = 0
    /\ opens = [p \in Paths |-> 0]

\* sys.exit(main()) is entered: parse_args and the two os.getenv
StartRun(p) ==
    /\ ~Running(run[p])
    /\ started < MaxRuns
    /\ \E n \in PRNumbers, gt \in Tokens, ak \in Tokens :
         run' = [run EXCEPT ![p] =
                    [Idle EXCEPT !.pc = "validate", !.pr_number = n,
                                 !.github_token = gt, !.anthropic_api_key = ak,
                                 !.fsAtStart = fs]]
    /\ started' = started + 1
    /\ UNCHANGED <<fs, dirExists, opens, llm, da>>

\* ValidateEnv without the test of anthropic_api_key
ValidateEnvGithubOnly(p) ==
    /\ run[p].pc = "validate"
    /\ LET r == Stepped(run[p])
       IN  run' = [run EXCEPT ![p] =
                IF Falsy(r.github_token)
                THEN Return(r, 1, "Error: GITHUB_TOKEN environment variable is required")
                ELSE [r EXCEPT !.pc = "fetch_info"]]
    /\ UNCHANGED <<fs, dirExists, started, opens, llm, da>>

\* if not github_token ... if not anthropic_api_key
ValidateEnv(p) ==
    /\ run[p].pc = "validate"
    /\ LET r == Stepped(run[p])
       IN  run' = [run EXCEPT ![p] =
                IF Falsy(r.github_token)
                THEN Return(r, 1, "Error: GITHUB_TOKEN environment variable is required")
                ELSE IF Falsy(r.anthropic_api_key)
                THEN Return(r, 1, "Error: ANTHROPIC_API_KEY environment variable is required")
                ELSE [r EXCEPT !.pc = "fetch_info"]]
    /\ UNCHANGED <<fs, dirExists, started, opens, llm, da>>

\* pr_info = get_pr_info(...)
FetchInfo(p) ==
    /\ run[p].pc = "fetch_info"
    /\ LET r == [Stepped(run[p]) EXCEPT !.calls.info = @ + 1]
       IN  \/ \E sha \in Shas :
                run' = [run EXCEPT ![p] =
                          [r EXCEPT !.pc = "check", !.resp.info = "ok",
                                    !.pr_info = [number |-> r.pr_number, title |-> "t",
                                                 login |-> "u", sha |-> sha]]]
           \/ \E e \in HttpFailures :
                run' = [run EXCEPT ![p] = Raise([r EXCEPT !.resp.info = e], "fetch_info", e)]
    /\ UNCHANGED <<fs, dirExists, started, opens, llm, da>>

\* CheckExisting without the return: it logs the existing review and goes on
CheckExistingNoReturn(p) ==
    /\ run[p].pc = "check"
    /\ LET path == OutputFile(run[p].pr_number, ShortSha(run[p].pr_info.sha))
           r    == [Stepped(run[p]) EXCEPT !.fsOps = @ + 1]
           r2   == [r EXCEPT !.output_file = path, !.checked = TRUE,
                             !.existedAtCheck = PathExists(fs, path),
                             !.fileAtCheck = fs[path]]
       IN  \/ /\ ~dirExists
              /\ run' = [run EXCEPT ![p] = Raise(r, "makedirs", "OSError")]
              /\ UNCHANGED dirExists
           \/ /\ dirExists' = TRUE
              /\ run' = [run EXCEPT ![p] = [r2 EXCEPT !.pc = "fetch_files"]]
    /\ UNCHANGED <<fs, started, opens, llm, da>>

\* CheckExisting that takes the file for a lock: the run that finds it absent
\* creates it in the same step
CheckExistingExclusive(p) ==
    /\ run[p].pc = "check"
    /\ LET path == OutputFile(run[p].pr_number, ShortSha(run[p].pr_info.sha))
           r    == [Stepped(run[p]) EXCEPT !.fsOps = @ + 1]
           r2   == [r EXCEPT !.output_file = path, !.checked = TRUE,
                             !.existedAtCheck = PathExists(fs, path),
                             !.fileAtCheck = fs[path]]
       IN  \/ /\ ~dirExists
              /\ run' = [run EXCEPT ![p] = Raise(r, "makedirs", "OSError")]
              /\ UNCHANGED <<dirExists, fs>>
           \/ /\ dirExists' = TRUE
              /\ IF PathExists(fs, path)
                 THEN /\ run' = [run EXCEPT ![p] = Return(r2, 0, "Review already exists")]
                      /\ UNCHANGED fs
                 ELSE /\ run' = [run EXCEPT ![p] = [r2 EXCEPT !.pc = "fetch_files"]]
                      /\ fs' = [fs EXCEPT ![path] = File("empty", None)]
    /\ UNCHANGED <<started, opens, llm, da>>

\* os.makedirs(output_dir, exist_ok=True); the path; if os.path.exists(output_file): return 0
CheckExisting(p) ==
    /\ run[p].pc = "check"
    /\ LET path == OutputFile(run[p].pr_number, ShortSha(run[p].pr_info.sha))
           r    == [Stepped(run[p]) EXCEPT !.fsOps = @ + 1]
           r2   == [r EXCEPT !.output_file = path, !.checked = TRUE,
                             !.existedAtCheck = PathExists(fs, path),
                             !.fileAtCheck = fs[path]]
       IN  \/ /\ ~dirExists
              /\ run' = [run EXCEPT ![p] = Raise(r, "makedirs", "OSError")]
              /\ UNCHANGED dirExists
           \/ /\ dirExists' = TRUE
              /\ run' = [run EXCEPT ![p] =
                          IF PathExists(fs, path)
                          THEN Return(r2, 0, "Review already exists")
                          ELSE [r2 EXCEPT !.pc = "fetch_files"]]
    /\ UNCHANGED <<fs, started, opens, llm, da>>

\* FetchFiles that catches the failure and goes on without the files, the
\* way post_comment catches it
FetchFilesSwallow(p) ==
    /\ run[p].pc = "fetch_files"
    /\ LET r == [Stepped(run[p]) EXCEPT !.calls.files = @ + 1]
       IN  \/ run' = [run EXCEPT ![p] =
                        [r EXCEPT !.pc = "fetch_diff", !.resp.files = "ok",
                                  !.changed_files = [type |-> "list"]]]
           \/ \E e \in HttpFailures :
                run' = [run EXCEPT ![p] =
                          [r EXCEPT !.pc = "fetch_diff", !.resp.files = e,
                                    !.changed_files = [type |-> "list"]]]
    /\ UNCHANGED <<fs, dirExists, started, opens, llm, da>>

\* changed_files = get_pr_files(...)
FetchFiles(p) ==
    /\ run[p].pc = "fetch_files"
    /\ LET r == [Stepped(run[p]) EXCEPT !.calls.files = @ + 1]
       IN  \/ run' = [run EXCEPT ![p] =
                        [r EXCEPT !.pc = "fetch_diff", !.resp.files = "ok",
                                  !.changed_files = [type |-> "list"]]]
           \/ \E e \in HttpFailures :
                run' = [run EXCEPT ![p] = Raise([r EXCEPT !.resp.files = e], "fetch_files", e)]
    /\ UNCHANGED <<fs, dirExists, started, opens, llm, da>>

\* diff_content = get_pr_diff(...)
FetchDiff(p) ==
    /\ run[p].pc = "fetch_diff"
    /\ LET r == [Stepped(run[p]) EXCEPT !.calls.diff = @ + 1]
       IN  \/ \E d \in MainDiffs :
                run' = [run EXCEPT ![p] =
                          [r EXCEPT !.pc = "analyze_diff", !.resp.diff = "ok",
                                    !.diff_content = d]]
           \/ \E e \in HttpFailures :
                run' = [run EXCEPT ![p] = Raise([r EXCEPT !.resp.diff = e], "fetch_diff", e)]
    /\ UNCHANGED <<fs, dirExists, started, opens, llm, da>>

\* diff_analysis = analyze_diff(diff_content)
AnalyzeDiff(p) ==
    /\ run[p].pc = "analyze_diff"
    /\ run' = [run EXCEPT ![p] =
                 [Stepped(run[p]) EXCEPT !.pc = "llm",
                                         !.diff_analysis = analyze_diff(run[p].diff_content)]]
    /\ UNCHANGED <<fs, dirExists, started, opens, llm, da>>

\* analysis = analyze_with_llm(...)
CallLLM(p) ==
    /\ run[p].pc = "llm"
    /\ \E o \in MainOutcomes :
         run' = [run EXCEPT ![p] =
                   [Stepped(run[p]) EXCEPT !.pc = "render", !.calls.llm = @ + 1,
                                           !.analysis = AnalyzeWithLLM(o)]]
    /\ UNCHANGED <<fs, dirExists, started, opens, llm, da>>

\* Render that asks the LLM again when the analysis is no dict
RenderRetry(p) ==
    /\ run[p].pc = "render"
    /\ LET r == Stepped(run[p])
       IN  IF CanRender(r.analysis)
           THEN \E now \in Times :
                  run' = [run EXCEPT ![p] =
                            [r EXCEPT !.pc = "open",
                                      !.comment = generate_comment(r.pr_info, r.analysis, now)]]
           ELSE run' = [run EXCEPT ![p] = [r EXCEPT !.pc = "llm"]]
    /\ UNCHANGED <<fs, dirExists, started, opens, llm, da>>

\* comment = generate_comment(pr_info, analysis, diff_analysis)
Render(p) ==
    /\ run[p].pc = "render"
    /\ LET r == Stepped(run[p])
       IN  IF CanRender(r.analysis)
           THEN \E now \in Times :
                  run' = [run EXCEPT ![p] =
                            [r EXCEPT !.pc = "open",
                                      !.comment = generate_comment(r.pr_info, r.analysis, now)]]
           ELSE run' = [run EXCEPT ![p] = Raise(r, "render", "AttributeError")]
    /\ UNCHANGED <<fs, dirExists, started, opens, llm, da>>

\* with open(output_file, 'w') as f: the file is created or truncated
OpenFile(p) ==
    /\ run[p].pc = "open"
    /\ LET r == [Stepped(run[p]) EXCEPT !.fsOps = @ + 1]
       IN  \/ /\ run' = [run EXCEPT ![p] = [r EXCEPT !.pc = "write"]]
              /\ fs' = [fs EXCEPT ![r.output_file] = File("empty", None)]
              /\ opens' = [opens EXCEPT ![r.output_file] = @ + 1]
           \/ /\ run' = [run EXCEPT ![p] = Raise(r, "open", "OSError")]
              /\ UNCHANGED <<fs, opens>>
    /\ UNCHANGED <<dirExists, started, llm, da>>

\* f.write(comment) and the close of the file
WriteFile(p) ==
    /\ run[p].pc = "write"
    /\ LET r == [Stepped(run[p]) EXCEPT !.fsOps = @ + 1]
       IN  \/ /\ run' = [run EXCEPT ![p] = Return(r, 0, "AI review completed successfully")]
              /\ fs' = [fs EXCEPT ![r.output_file] = File("full", r.comment)]
           \/ \E left \in {"empty", "partial"} :
              /\ run' = [run EXCEPT ![p] = Raise(r, "write", "OSError")]
              /\ fs' = [fs EXCEPT ![r.output_file] =
                           File(left, IF left = "empty" THEN None ELSE r.comment)]
    /\ UNCHANGED <<dirExists, started, opens, llm, da>>

Step(p) ==
    \/ ValidateEnv(p)
    \/ FetchInfo(p)
    \/ CheckExisting(p)
    \/ FetchFiles(p)
    \/ FetchDiff(p)
    \/ AnalyzeDiff(p)
    \/ CallLLM(p)
    \/ Render(p)
    \/ OpenFile(p)
    \/ WriteFile(p)

\* ------------------------------------------------------------------ specifications

\* the parts of the state a specification leaves alone
LLMIdle ==
    llm = [pc |-> "idle", stream |-> <<>>, content |-> <<>>, cleaned |-> <<>>,
           result |-> None, raised |-> ""]

DiffIdle == da = [pc |-> "idle", diff |-> <<>>, result |-> None]

Init == MainInit /\ LLMIdle /\ DiffIdle

\* runs of main() one after the other, none overlapping another
SeqStart(p) == StartRun(p) /\ \A q \in Procs : ~Running(run[q])

\* the process whose runs Spec follows
SeqProcs == {1}

Next == \E p \in SeqProcs : SeqStart(p) \/ Step(p)

Spec == Init /\ [][Next]_vars

\* runs of main() in two processes, interleaved step by step
\* each process runs main() once
ConcStart(p) == StartRun(p) /\ run[p].pc = "idle"

NextConc == \E p \in Procs : ConcStart(p) \/ Step(p)

SpecConc == Init /\ [][NextConc]_vars

InitLLM == MainInit /\ LLMInit /\ DiffIdle

NextLLM == LLMCreate \/ LLMChunk \/ LLMParse

SpecLLM == InitLLM /\ [][NextLLM]_vars

InitDiff == MainInit /\ LLMIdle /\ DiffInit

NextDiff == DiffAnalyze

SpecDiff == InitDiff /\ [][NextDiff]_vars

\* ------------------------------------------------------------------ claims

\* C1: a run that reaches the existence test with the output file present
\* ends there with exit code 0: it has called the LLM never, fetched neither
\* the changed files nor the diff, and the file is as the test found it.
C1_IdempotenceGuard ==
    \A p \in Procs :
        LET r == run[p]
        IN  (r.checked /\ r.existedAtCheck) =>
              /\ r.pc = "exited" /\ r.exit = 0
              /\ r.calls.llm = 0 /\ r.calls.files = 0 /\ r.calls.diff = 0
              /\ r.trace[Len(r.trace)] = "check"
              /\ fs[r.output_file] = r.fileAtCheck

C1_Witness ==
    \E p \in Procs :
        /\ run[p].existedAtCheck /\ run[p].pc = "exited"
        /\ run[p].fileAtCheck.data = "full"
        /\ run[p].calls.info = 1

\* C2: a run that has called the LLM and whose open and write of the output
\* file did not fail ends with exit code 0 and the rendered comment in the
\* output file, whatever the LLM step produced.
C2_ArtifactAlways ==
    \A p \in Procs :
        LET r == run[p]
        IN  (r.pc = "exited" /\ r.calls.llm > 0 /\ r.failed \notin {"open", "write"}) =>
              /\ r.exit = 0
              /\ r.analysis.type = "dict"
              /\ fs[r.output_file] = File("full", r.comment)

\* C3: after a run that ends with exit code 1 no output file is at the
\* computed path, unless a complete file was there when the run started.
C3_NoPartialOutput ==
    \A p \in Procs :
        LET r == run[p]
        IN  (r.pc = "exited" /\ r.exit = 1 /\ r.checked) =>
              \/ ~fs[r.output_file].exists
              \/ r.fsAtStart[r.output_file].data = "full"

\* C4: a run without GITHUB_TOKEN ends with exit code 1 and the message
\* naming GITHUB_TOKEN; a run with GITHUB_TOKEN and without
\* ANTHROPIC_API_KEY ends with exit code 1 and the message naming
\* ANTHROPIC_API_KEY; in both no call of the hosting API or the LLM and no
\* operation on the file system has happened.
C4_MissingCredentials ==
    \A p \in Procs :
        LET r    == run[p]
            none == /\ r.pc = "exited" /\ r.exit = 1
                    /\ r.calls = NoCalls /\ r.fsOps = 0
                    /\ r.trace = <<"validate">>
                    /\ fs = r.fsAtStart
        IN  r.pc \notin {"idle", "validate"} =>
              /\ Falsy(r.github_token) =>
                   /\ none
                   /\ r.out = "Error: GITHUB_TOKEN environment variable is required"
              /\ (~Falsy(r.github_token) /\ Falsy(r.anthropic_api_key)) =>
                   /\ none
                   /\ r.out = "Error: ANTHROPIC_API_KEY environment variable is required"

C4_Witness ==
    \E p \in Procs :
        /\ run[p].pc = "exited"
        /\ run[p].github_token.value = "secret"
        /\ ~run[p].anthropic_api_key.set
        /\ dirExists

\* C5: over runs that do not overlap, an output file is opened for writing
\* at most once, its content does not change once the run that wrote it is
\* past its write, and no run calls the LLM for a path whose file was
\* there when the run started.
C5_WriteOnce ==
    [][\A path \in Paths :
         /\ opens'[path] <= 1
         /\ (/\ fs[path].exists
             /\ \A p \in Procs : ~(run[p].pc = "write" /\ run[p].output_file = path))
              => fs'[path] = fs[path]
         /\ \A p \in Procs :
              (run'[p].calls.llm > run[p].calls.llm /\ run[p].output_file = path)
                => (opens[path] = 0 /\ ~run[p].fsAtStart[path].exists)]_vars

C5_Witness ==
    \E p \in Procs, path \in Paths :
        /\ started >= 2
        /\ opens[path] = 1
        /\ fs[path].data = "full"
        /\ run[p].output_file = path
        /\ run[p].fsAtStart[path].data = "full"
        /\ run[p].pc = "exited" /\ run[p].calls.llm = 0

\* C6: each of the three fetches is made at most once in a run, and a run
\* in which one of them failed has made it once, has taken no later step,
\* has called the LLM never, has left the file system as it found it and
\* has ended with exit code 1.
C6_FetchFailuresFatal ==
    \A p \in Procs :
        LET r == run[p]
        IN  /\ r.calls.info <= 1 /\ r.calls.files <= 1 /\ r.calls.diff <= 1
            /\ \A f \in {"info", "files", "diff"} :
                 r.resp[f] \in HttpFailures =>
                   /\ r.pc = "exited" /\ r.exit = 1
                   /\ r.calls[f] = 1
                   /\ r.trace[Len(r.trace)] = r.failed
                   /\ r.failed = IF f = "info" THEN "fetch_info"
                                 ELSE IF f = "files" THEN "fetch_files" ELSE "fetch_diff"
                   /\ r.calls.llm = 0
                   /\ fs = r.fsAtStart

C6_Witness ==
    \E p \in Procs :
        /\ run[p].pc = "exited"
        /\ run[p].resp.info = "ok" /\ run[p].resp.files = "ok"
        /\ run[p].resp.diff = "HTTPError"

\* C7: when the collected text, with a leading json fence, a trailing
\* fence and the surrounding whitespace taken off, is not valid JSON,
\* analyze_with_llm returns a record whose summary is that text, whose
\* risk_assessment is the parse-failure message with the parser's error,
\* and whose api_impact, dependency_impact and code_quality are the
\* pointer to the summary.
AllWhitespace(s) == \A i \in 1..Len(s) : s[i] \in Whitespace

\* an opener, if any, then whitespace
IsOpenerPart(s) ==
    AllWhitespace(s) \/ (StartsWith(s, FenceJson) /\ AllWhitespace(SliceFrom(s, 7)))

\* whitespace, then a closer, if any
IsCloserPart(s) ==
    AllWhitespace(s) \/ (EndsWith(s, Fence) /\ AllWhitespace(SliceDropLast(s, 3)))

C7_ParseFallback ==
    (llm.pc = "returned" /\ llm.raised = "" /\ ~JsonLoads(llm.cleaned).ok) =>
        /\ \E i \in 0..Len(llm.content) : \E j \in i..Len(llm.content) :
             /\ llm.cleaned = SubSeq(llm.content, i + 1, j)
             /\ IsOpenerPart(SubSeq(llm.content, 1, i))
             /\ IsCloserPart(SubSeq(llm.content, j + 1, Len(llm.content)))
        /\ llm.cleaned = <<>> \/
             (llm.cleaned[1] \notin Whitespace /\ llm.cleaned[Len(llm.cleaned)] \notin Whitespace)
        /\ llm.result.type = "dict"
        /\ DictGet(llm.result, KeySummary, None) = Str(llm.cleaned)
        /\ DictGet(llm.result, KeyRisk, None) =
             Str(<<"Could not parse LLM response. Error: ", JsonLoads(llm.cleaned).msg>>)
        /\ \A k \in {KeyApi, KeyDependency, KeyQuality} :
             DictGet(llm.result, k, None) = Str(<<"Raw response shown in summary above">>)
        /\ {llm.result.items[n].k : n \in DOMAIN llm.result.items} =
             {KeySummary, KeyRisk, KeyApi, KeyDependency, KeyQuality}

C7_Witness ==
    /\ llm.pc = "returned" /\ llm.raised = ""
    /\ ~JsonLoads(llm.cleaned).ok
    /\ llm.cleaned # <<>>
    /\ Len(llm.cleaned) + 10 = Len(llm.content)

\* C8: the steps of a run are taken in the one order validate, fetch_info,
\* check, fetch_files, fetch_diff, analyze_diff, llm, render, open, write,
\* none twice; the LLM is called at most once, and only in a run whose
\* three fetches succeeded, whose existence test found no file and whose
\* diff is analyzed.
StepOrder ==
    <<"validate", "fetch_info", "check", "fetch_files", "fetch_diff",
      "analyze_diff", "llm", "render", "open", "write">>

C8_LinearOrder ==
    \A p \in Procs :
        LET r == run[p]
        IN  /\ Len(r.trace) <= Len(StepOrder)
            /\ r.trace = SubSeq(StepOrder, 1, Len(r.trace))
            /\ Running(r) => r.pc = StepOrder[Len(r.trace) + 1]
            /\ r.calls.llm <= 1
            /\ r.calls.llm = 1 =>
                 /\ r.resp = [info |-> "ok", files |-> "ok", diff |-> "ok"]
                 /\ r.checked /\ ~r.existedAtCheck
                 /\ r.diff_analysis = analyze_diff(r.diff_content)

C8_Witness ==
    \E p \in Procs :
        /\ run[p].trace = StepOrder
        /\ run[p].pc = "exited" /\ run[p].exit = 0
        /\ run[p].diff_analysis.total_changes = 3

\* C9: the existence test takes no lock: the run that finds the file absent
\* leaves the file system as it is, so that a second run's test finds the
\* file absent too; two runs for one pull request and head commit can both
\* call the LLM and both write the one output file.
C9_CheckIsNoLock ==
    [][\A p \in Procs :
         (run[p].pc = "check" /\ run'[p].pc = "fetch_files") =>
            /\ fs' = fs
            /\ opens' = opens
            /\ ~PathExists(fs', run'[p].output_file)]_vars

C9_Witness ==
    \E path \in Paths :
        /\ opens[path] = 2
        /\ \A p \in Procs :
             /\ run[p].output_file = path
             /\ ~run[p].existedAtCheck
             /\ run[p].calls.llm = 1
             /\ run[p].pc = "exited" /\ run[p].exit = 0

\* C10: every name analyze_diff returns in env_vars is made of upper-case
\* letters, digits and underscores and begins with no digit, no name is
\* returned twice, and each stands in the diff in one of the five idioms.
UpperName(n) ==
    /\ n # <<>>
    /\ n[1] \in NameStart(StrictFlags)
    /\ \A i \in 1..Len(n) : n[i] \in NameRest(StrictFlags)

ReferencedIn(diff, n) ==
    \E k \in DOMAIN EnvPatterns : \E i \in 1..Len(diff) :
        StartsWithAt(diff, i, EnvPatterns[k].pre \o n \o EnvPatterns[k].suf)

C10_EnvVarNames ==
    da.pc = "done" =>
        LET v == da.result.env_vars
        IN  /\ \A i \in 1..Len(v) : UpperName(v[i]) /\ ReferencedIn(da.diff, v[i])
            /\ \A i, j \in 1..Len(v) : i # j => v[i] # v[j]

====
